---- MODULE Spec2Model ----
(***************************************************************************)
(* The jira module (plugins/modules/web_infrastructure/jira.py): one       *)
(* invocation of main(), from the construction of AnsibleModule to the     *)
(* exit_json / fail_json that ends it.                                     *)
(*                                                                         *)
(* Python values.  A str is a Text: a sequence of tokens (TLA+ strings),   *)
(* '' being the empty sequence; Flat gives the string it spells.  None is  *)
(* a Text that no input spells.  A dict is a function from its keys.       *)
(***************************************************************************)
EXTENDS Integers, Sequences, FiniteSets, TLC

VARIABLES
    params,     \* module.params
    given,      \* the parameters as the caller supplied them
    server,     \* the responses the server gives to the 1st and 2nd request
    fs,         \* the files that exist on the controller
    pc,         \* position of main: "init", "main", "dispatch", "done"
    calls,      \* the calls of request() made so far, with their outcome
    sent,       \* the HTTP requests handed to fetch_url so far
    attached,   \* what _prepare_attachment returned, if it returned
    outcome     \* what the invocation reported: exit_json or fail_json

vars == <<params, given, server, fs, pc, calls, sent, attached, outcome>>

---------------------------------------------------------------------------
(* Python values *)

None == <<"<None>">>

Truthy(v) == v # None /\ v # <<>>

RECURSIVE Flat(_)
Flat(t) == IF t = <<>> THEN "" ELSE Head(t) \o Flat(Tail(t))

\* A JSON value inside a fields mapping: a string, or an object with one key.
Scalar(v) == [t |-> "str", v |-> v]
Obj1(k, v) == [t |-> k, v |-> v]

EmptyDict == [k \in {} |-> Scalar(<<>>)]

\* dict_update that keeps a's value on a key of both
dict_update_keeping(a, b) ==
    [k \in DOMAIN a \cup DOMAIN b |-> IF k \in DOMAIN a THEN a[k] ELSE b[k]]

\* dict.update: every key of b, with b's value, over a
dict_update(a, b) ==
    [k \in DOMAIN a \cup DOMAIN b |-> IF k \in DOMAIN b THEN b[k] ELSE a[k]]

\* d with d[k] = v
dict_set(d, k, v) == [x \in DOMAIN d \cup {k} |-> IF x = k THEN v ELSE d[x]]

---------------------------------------------------------------------------
(* The inputs of one invocation *)

Operations ==
    {"attach", "create", "comment", "edit", "update", "fetch", "transition",
     "link", "search"}

\* The parameters each handler reads, and those required_if names for it
Reads(op) ==
    CASE op = "create" -> {"project", "summary", "issuetype", "description", "fields"}
      [] op = "comment" -> {"issue", "comment"}
      [] op = "edit" -> {"issue", "fields"}
      [] op = "update" -> {"issue", "fields"}
      [] op = "fetch" -> {"issue"}
      [] op = "search" -> {"jql", "fields", "maxresults"}
      [] op = "transition" ->
            {"issue", "status", "fields", "summary", "description", "comment"}
      [] op = "link" -> {"linktype", "inwardissue", "outwardissue"}
      [] op = "attach" -> {"issue", "attachment"}

\* A parameter the operation does not read is left out by the caller
Opt(op, name, values) == IF name \in Reads(op) THEN values \cup {None} ELSE {None}

Uris == {<<"http://jira">>, <<"http://jira", "/">>}

username == <<"u">>
password == <<"p">>
timeout == <<"10.0">>

\* The free-form fields mappings a caller passes (fields defaults to {})
FieldIds == 1..3
FieldsOption(i) ==
    CASE i = 1 -> EmptyDict
      [] i = 2 -> [k \in {"labels"} |-> Scalar(<<"bug">>)]
      [] i = 3 -> [k \in {"summary", "assignee"} |->
                     IF k = "summary" THEN Scalar(<<"Overridden">>)
                     ELSE Obj1("name", <<"bob">>)]

\* File names: tokens are path separators, dots, quotes and name parts
ReportTxt == <<"/", "tmp", "/", "report", ".", "txt">>
QuotedBin == <<"/", "tmp", "/", "a", "\"", "b">>
GoneTxt == <<"/", "tmp", "/", "gone", ".", "txt">>
HhhBin == <<"/", "tmp", "/", "hhh">>

Filenames == {ReportTxt, QuotedBin, GoneTxt, HhhBin, <<>>}

\* The file systems an invocation may find
FileSystems == {{}, {ReportTxt}, {ReportTxt, QuotedBin, HhhBin}}

\* The content of each file, as bytes; HhhBin holds a run of the letter h as
\* long as a boundary
FileContent(path) ==
    CASE path = ReportTxt -> <<104, 105>>
      [] path = QuotedBin -> <<45, 45>>
      [] path = HhhBin -> [i \in 1..30 |-> 104]
      [] OTHER -> <<>>

\* Byte strings an attachment may carry inline, base64-encoded
MaxBytes == 2
ByteAlphabet == {45, 104}
ByteStrings == UNION {[1..n -> ByteAlphabet] : n \in 0..MaxBytes}

B64Alphabet ==
    <<"A", "B", "C", "D", "E", "F", "G", "H", "I", "J", "K", "L", "M", "N", "O", "P",
      "Q", "R", "S", "T", "U", "V", "W", "X", "Y", "Z", "a", "b", "c", "d", "e", "f",
      "g", "h", "i", "j", "k", "l", "m", "n", "o", "p", "q", "r", "s", "t", "u", "v",
      "w", "x", "y", "z", "0", "1", "2", "3", "4", "5", "6", "7", "8", "9", "+", "/">>

B64Char(n) == B64Alphabet[n + 1]

\* base64 of a byte string: three bytes to four characters, '=' padding
RECURSIVE b64encode(_)
b64encode(B) ==
    IF Len(B) = 0 THEN <<>>
    ELSE IF Len(B) = 1 THEN
        <<B64Char(B[1] \div 4), B64Char((B[1] % 4) * 16), "=", "=">>
    ELSE IF Len(B) = 2 THEN
        <<B64Char(B[1] \div 4), B64Char((B[1] % 4) * 16 + B[2] \div 16),
          B64Char((B[2] % 16) * 4), "=">>
    ELSE
        <<B64Char(B[1] \div 4), B64Char((B[1] % 4) * 16 + B[2] \div 16),
          B64Char((B[2] % 16) * 4 + B[3] \div 64), B64Char(B[3] % 64)>>
        \o b64encode(SubSeq(B, 4, Len(B)))

\* Inline content: absent, empty, wrongly padded, or the base64 of a byte string
Malformed == <<"a", "A", "=">>
Contents == {None, <<>>, Malformed} \cup {b64encode(B) : B \in ByteStrings}

Mimetypes == {None, <<"text", "/", "plain">>}

\* attachment is None exactly when its filename is None: the argument spec
\* requires a filename in every attachment that is given
NoAttachment == [filename |-> None, content |-> None, mimetype |-> None]
Attachments == [filename : Filenames, content : Contents, mimetype : Mimetypes]

---------------------------------------------------------------------------
(* The server.  A response is a status and a raw body; the decoded form of *)
(* a body is what json.loads makes of that text.  A decoded object is the  *)
(* sequence of its <<key, value>> pairs; a value carries its JSON type:    *)
(* <<"s", text>>, <<"l", list of texts>>, <<"d", pairs>>, or               *)
(* <<"t", list of transitions>>.                                           *)

JStr(x) == <<"s", x>>
JList(x) == <<"l", x>>
JDict(x) == <<"d", x>>
JTransitions(x) == <<"t", x>>
JNone == <<"none", <<>>>>

Tr(name, id) == [name |-> name, id |-> id]

BodyIssue == <<"{\"key\": \"HSP-1\"}">>
BodyCreated == <<"{\"id\": \"10000\", \"key\": \"HSP-2\"}">>
BodyTransitions ==
    <<"{\"transitions\": [{\"id\": \"5\", \"name\": \"Resolve Issue\"}, {\"id\": \"7\", \"name\": \"Done\"}]}">>
BodyFalsyId == <<"{\"transitions\": [{\"id\": \"\", \"name\": \"Done\"}]}">>
BodyTwoDone ==
    <<"{\"transitions\": [{\"id\": \"7\", \"name\": \"Done\"}, {\"id\": \"9\", \"name\": \"Done\"}]}">>
BodyBadGateway == <<"Bad Gateway">>
BodyErrMessages == <<"{\"errorMessages\": [\"Issue Does Not Exist\"], \"errors\": {}}">>
BodyErrErrors == <<"{\"errorMessages\": [], \"errors\": {\"summary\": \"required\"}}">>
BodyErrBoth ==
    <<"{\"errorMessages\": [\"Bad issue\"], \"errors\": {\"summary\": \"required\"}}">>
BodyEmptyObject == <<"{}">>
BodyOther == <<"{\"message\": \"boom\"}">>
BodyHtml == <<"<html>">>

Response(i) ==
    CASE i = 1 -> [status |-> 200, body |-> BodyIssue]
      [] i = 2 -> [status |-> 201, body |-> BodyCreated]
      [] i = 3 -> [status |-> 204, body |-> <<>>]
      [] i = 4 -> [status |-> 200, body |-> BodyTransitions]
      [] i = 5 -> [status |-> 200, body |-> BodyFalsyId]
      [] i = 6 -> [status |-> 200, body |-> BodyTwoDone]
      [] i = 7 -> [status |-> 502, body |-> BodyBadGateway]
      [] i = 8 -> [status |-> 400, body |-> BodyErrMessages]
      [] i = 9 -> [status |-> 400, body |-> BodyErrErrors]
      [] i = 10 -> [status |-> 400, body |-> BodyErrBoth]
      [] i = 11 -> [status |-> 404, body |-> BodyEmptyObject]
      [] i = 12 -> [status |-> 500, body |-> BodyOther]
      [] i = 13 -> [status |-> 200, body |-> BodyHtml]

FirstResponses == 1..13
\* What the server answers to the POST of a transition
SecondResponses == {3, 8}

\* json.loads: the decoded value, or ok = FALSE where it raises ValueError
json_loads(text) ==
    CASE text = BodyIssue -> [ok |-> TRUE, v |-> << <<"key", JStr(<<"HSP-1">>)>> >>]
      [] text = BodyCreated ->
            [ok |-> TRUE,
             v |-> << <<"id", JStr(<<"10000">>)>>, <<"key", JStr(<<"HSP-2">>)>> >>]
      [] text = BodyTransitions ->
            [ok |-> TRUE,
             v |-> << <<"transitions",
                        JTransitions(<<Tr(<<"Resolve Issue">>, <<"5">>),
                                       Tr(<<"Done">>, <<"7">>)>>)>> >>]
      [] text = BodyFalsyId ->
            [ok |-> TRUE,
             v |-> << <<"transitions", JTransitions(<<Tr(<<"Done">>, <<>>)>>)>> >>]
      [] text = BodyTwoDone ->
            [ok |-> TRUE,
             v |-> << <<"transitions",
                        JTransitions(<<Tr(<<"Done">>, <<"7">>),
                                       Tr(<<"Done">>, <<"9">>)>>)>> >>]
      [] text = BodyErrMessages ->
            [ok |-> TRUE,
             v |-> << <<"errorMessages", JList(<< <<"Issue Does Not Exist">> >>)>>,
                      <<"errors", JDict(<<>>)>> >>]
      [] text = BodyErrErrors ->
            [ok |-> TRUE,
             v |-> << <<"errorMessages", JList(<<>>)>>,
                      <<"errors", JDict(<< <<"summary", <<"required">>>> >>)>> >>]
      [] text = BodyErrBoth ->
            [ok |-> TRUE,
             v |-> << <<"errorMessages", JList(<< <<"Bad issue">> >>)>>,
                      <<"errors", JDict(<< <<"summary", <<"required">>>> >>)>> >>]
      [] text = BodyEmptyObject -> [ok |-> TRUE, v |-> <<>>]
      [] text = BodyOther -> [ok |-> TRUE, v |-> << <<"message", JStr(<<"boom">>)>> >>]
      [] OTHER -> [ok |-> FALSE, v |-> <<>>]

\* dict.get(key): the value of the first pair with that key, else None
HasKey(d, key) == \E i \in DOMAIN d : d[i][1] = key
dict_get(d, key) ==
    IF HasKey(d, key)
    THEN d[CHOOSE i \in DOMAIN d : d[i][1] = key /\ \A j \in 1..(i - 1) : d[j][1] # key][2]
    ELSE JNone

\* Truth value of a decoded value: None and empty containers are false
JTruthy(v) == v[1] # "none" /\ v[2] # <<>>

\* repr(str): the text in single quotes
py_repr(x) == <<"'">> \o x \o <<"'">>

\* str() of a list of strings: ['a', 'b']
RECURSIVE py_items(_)
py_items(l) ==
    IF l = <<>> THEN <<>>
    ELSE IF Len(l) = 1 THEN py_repr(l[1])
    ELSE py_repr(l[1]) \o <<", ">> \o py_items(Tail(l))

\* the items of a dict of strings: 'k': 'v', ...
RECURSIVE py_pairs(_)
py_pairs(d) ==
    IF d = <<>> THEN <<>>
    ELSE py_repr(<<d[1][1]>>) \o <<": ">> \o py_repr(d[1][2])
         \o (IF Len(d) = 1 THEN <<>> ELSE <<", ">> \o py_pairs(Tail(d)))

\* to_native of a decoded value: Python's str() of it
to_native_value(v) ==
    CASE v[1] = "s" -> v[2]
      [] v[1] = "l" -> <<"[">> \o py_items(v[2]) \o <<"]">>
      [] v[1] = "d" -> <<"{">> \o py_pairs(v[2]) \o <<"}">>
      [] OTHER -> <<"None">>

\* to_native of a decoded object whose values are strings
RECURSIVE py_object(_)
py_object(d) ==
    IF d = <<>> THEN <<>>
    ELSE py_repr(<<d[1][1]>>) \o <<": ">>
         \o (IF d[1][2][1] = "s" THEN py_repr(d[1][2][2]) ELSE to_native_value(d[1][2]))
         \o (IF Len(d) = 1 THEN <<>> ELSE <<", ">> \o py_object(Tail(d)))

to_native_object(d) == <<"{">> \o py_object(d) \o <<"}">>

---------------------------------------------------------------------------
(* request(): lines 369-424 *)

\* How a call ends: it returns a value, raises an exception, or has called
\* module.fail_json, which ends the process
Returned(v, reqs) ==
    [kind |-> "return", value |-> v, exc |-> "", msg |-> <<>>, sent |-> reqs]
Raised(exc, msg, reqs) ==
    [kind |-> "raise", value |-> <<>>, exc |-> exc, msg |-> msg, sent |-> reqs]
FailJson(msg, reqs) ==
    [kind |-> "fail_json", value |-> <<>>, exc |-> "", msg |-> msg, sent |-> reqs]

\* The data argument: None, a dict, or a str
NoData == [t |-> "none", v |-> <<>>]
DictData(d) == [t |-> "dict", v |-> d]
StrData(x) == [t |-> "str", v |-> x]

\* additional_headers: None, or a dict of header values
NoHeaders == [t |-> "NoneType", v |-> [k \in {} |-> <<>>]]
DictHeaders(h) == [t |-> "dict", v |-> h]

JsonType == <<"application/json">>

data_truthy(data) == data.t # "none" /\ data.v # <<>>

\* json.dumps: the JSON text of the mapping
json_dumps(data) == [t |-> "json", v |-> data.v]

Ord(c) ==
    CASE c = "-" -> 45 [] c = ":" -> 58 [] c = "h" -> 104 [] c = "i" -> 105
      [] c = "p" -> 112 [] c = "u" -> 117 [] OTHER -> 63

Chr(b) ==
    CASE b = 45 -> "-" [] b = 58 -> ":" [] b = 104 -> "h" [] b = 105 -> "i"
      [] b = 112 -> "p" [] b = 117 -> "u" [] OTHER -> "?"

to_bytes(text) == [i \in 1..Len(text) |-> Ord(text[i])]
to_text(bytes) == [i \in 1..Len(bytes) |-> Chr(bytes[i])]

\* The builtin isinstance applied to a list of arguments: it takes exactly
\* two, and raises TypeError on any other number
isinstance(args) ==
    IF Len(args) = 2
    THEN [raised |-> FALSE, msg |-> <<>>,
          value |-> IF args[1].t = args[2] THEN "True" ELSE "False"]
    ELSE [raised |-> TRUE, value |-> "",
          msg |-> <<"isinstance expected 2 arguments, got ", ToString(Len(args))>>]

\* fetch_url: the request goes to the server, which answers it.  A request
\* without a method is a GET when it has no data and a POST when it has
fetch_url(url, data, method, headers, response) ==
    [request |-> [method |-> IF method # None THEN method
                             ELSE IF data.t = "none" THEN <<"GET">> ELSE <<"POST">>,
                  url |-> url, data |-> data, headers |-> headers],
     status |-> response.status,
     body |-> response.body]

StatusOK == {200, 201, 204}

\* ', '.join of the messages
RECURSIVE join_messages(_)
join_messages(msg) ==
    IF msg = <<>> THEN <<>>
    ELSE IF Len(msg) = 1 THEN msg[1]
    ELSE msg[1] \o <<", ">> \o join_messages(Tail(msg))

\* lines 410-413: the known error fields that are present and not empty
error_messages(error) ==
    (IF JTruthy(dict_get(error, "errorMessages"))
     THEN <<to_native_value(dict_get(error, "errorMessages"))>> ELSE <<>>)
    \o (IF JTruthy(dict_get(error, "errors"))
        THEN <<to_native_value(dict_get(error, "errors"))>> ELSE <<>>)

\* lines 403-424: what request() makes of the answer
interpret_response(info) ==
    IF info.status \notin StatusOK THEN
        LET error == json_loads(info.body) IN
        IF ~error.ok THEN FailJson(info.body, <<info.request>>)
        ELSE IF error.v # <<>> THEN
            LET msg == error_messages(error.v) IN
            IF msg # <<>> THEN FailJson(join_messages(msg), <<info.request>>)
            ELSE FailJson(to_native_object(error.v), <<info.request>>)
        ELSE FailJson(info.body, <<info.request>>)
    ELSE IF info.body # <<>> THEN
        LET decoded == json_loads(info.body) IN
        IF decoded.ok THEN Returned(decoded.v, <<info.request>>)
        ELSE Raised("ValueError", <<"No JSON object could be decoded">>, <<info.request>>)
    ELSE Returned(<<>>, <<info.request>>)

request(url, data, method, content_type, additional_headers, response) ==
    LET body == IF data_truthy(data) /\ content_type = JsonType
                THEN json_dumps(data) ELSE data
        auth == b64encode(to_bytes(username \o <<":">> \o password))
        check == isinstance(<<additional_headers>>)
    IN  IF check.raised THEN Raised("TypeError", check.msg, <<>>)
        ELSE
            LET headers0 == IF check.value = "dict" THEN additional_headers.v
                            ELSE [k \in {} |-> <<>>]
                headers == dict_update(headers0,
                               [k \in {"Content-Type", "Authorization"} |->
                                   IF k = "Content-Type" THEN content_type
                                   ELSE <<"Basic ">> \o auth])
            IN  interpret_response(fetch_url(url, body, method, headers, response))

post(url, data, content_type, additional_headers, response) ==
    request(url, data, <<"POST">>, content_type, additional_headers, response)

put(url, data, response) ==
    request(url, data, <<"PUT">>, JsonType, NoHeaders, response)

get(url, response) ==
    request(url, NoData, None, JsonType, NoHeaders, response)

---------------------------------------------------------------------------
(* The operation handlers: lines 439-565 *)

\* A call of request() as the handler made it, with how it ended
Call(method, url, data, content_type, additional_headers, r) ==
    [method |-> method, url |-> url, data |-> data, content_type |-> content_type,
     additional_headers |-> additional_headers, kind |-> r.kind, value |-> r.value]

\* What _prepare_attachment returned; None where it did not return
NotPrepared == [content_type |-> None, data |-> None, boundary |-> None]

\* How a handler ends: what its last step did, the calls it made and the
\* requests that went out
Handled(changed, r, made, reqs) ==
    [kind |-> r.kind, changed |-> changed, value |-> r.value, exc |-> r.exc,
     msg |-> r.msg, calls |-> made, sent |-> reqs, prepared |-> NotPrepared]

\* str + None raises TypeError
ConcatError ==
    Raised("TypeError", <<"can only concatenate str (not \"NoneType\") to str">>, <<>>)

\* The keys of a fields mapping, in the order they were inserted
KeyOrder == <<"labels", "summary", "assignee">>
keys(d) == SelectSeq(KeyOrder, LAMBDA k : k \in DOMAIN d)

\* pathname2url: percent-quoting of the characters that are not safe
quote_token(c) ==
    CASE c = "=" -> "%3D" [] c = " " -> "%20" [] c = "\"" -> "%22" [] OTHER -> c
pathname2url(text) == [i \in 1..Len(text) |-> quote_token(text[i])]

\* lines 440-450: createfields, and the params as these lines leave them;
\* createfields is a dict of its own, so writing to it leaves params alone
createfields_of(p) ==
    LET createfields0 ==
            [k \in {"project", "summary", "issuetype"} |->
                CASE k = "project" -> Obj1("key", p.project)
                  [] k = "summary" -> Scalar(p.summary)
                  [] k = "issuetype" -> Obj1("name", p.issuetype)]
        createfields1 ==
            IF Truthy(p.description)
            THEN dict_set(createfields0, "description", Scalar(p.description))
            ELSE createfields0
        createfields ==
            IF DOMAIN p.fields # {} THEN dict_update(createfields1, p.fields)
            ELSE createfields1
    IN  [fields |-> createfields, params |-> p]

\* createfields_of with the fields collected in params['fields'] itself
createfields_in_place(p) ==
    [fields |-> createfields_of(p).fields,
     params |-> [p EXCEPT !.fields = createfields_of(p).fields]]

\* lines 440-450, as create uses them
create_fields(p) == createfields_of(p)

create(restbase, p, srv) ==
    LET createfields == create_fields(p).fields
        data == DictData([fields |-> createfields])
        url == restbase \o <<"/issue/">>
        r == post(url, data, JsonType, NoHeaders, Response(srv[1]))
    IN  Handled(TRUE, r, <<Call(<<"POST">>, url, data, JsonType, NoHeaders, r)>>, r.sent)

comment(restbase, p, srv) ==
    LET data == DictData([body |-> p.comment])
        url == restbase \o <<"/issue/">> \o p.issue \o <<"/comment">>
        r == post(url, data, JsonType, NoHeaders, Response(srv[1]))
    IN  IF p.issue = None THEN Handled(TRUE, ConcatError, <<>>, <<>>)
        ELSE Handled(TRUE, r, <<Call(<<"POST">>, url, data, JsonType, NoHeaders, r)>>,
                     r.sent)

edit(restbase, p, srv) ==
    LET data == DictData([fields |-> p.fields])
        url == restbase \o <<"/issue/">> \o p.issue
        r == put(url, data, Response(srv[1]))
    IN  IF p.issue = None THEN Handled(TRUE, ConcatError, <<>>, <<>>)
        ELSE Handled(TRUE, r, <<Call(<<"PUT">>, url, data, JsonType, NoHeaders, r)>>,
                     r.sent)

update(restbase, p, srv) ==
    LET data == DictData([update |-> p.fields])
        url == restbase \o <<"/issue/">> \o p.issue
        r == put(url, data, Response(srv[1]))
    IN  IF p.issue = None THEN Handled(TRUE, ConcatError, <<>>, <<>>)
        ELSE Handled(TRUE, r, <<Call(<<"PUT">>, url, data, JsonType, NoHeaders, r)>>,
                     r.sent)

fetch(restbase, p, srv) ==
    LET url == restbase \o <<"/issue/">> \o p.issue
        r == get(url, Response(srv[1]))
    IN  IF p.issue = None THEN Handled(FALSE, ConcatError, <<>>, <<>>)
        ELSE Handled(FALSE, r, <<Call(None, url, NoData, JsonType, NoHeaders, r)>>,
                     r.sent)

\* '&fields='.join of the quoted keys
RECURSIVE join_fields(_)
join_fields(ks) ==
    IF ks = <<>> THEN <<>>
    ELSE IF Len(ks) = 1 THEN pathname2url(<<ks[1]>>)
    ELSE pathname2url(<<ks[1]>>) \o <<"&fields=">> \o join_fields(Tail(ks))

\* An int is false when it is 0
int_truthy(n) == n # None /\ n # <<"0">>

search(restbase, p, srv) ==
    LET url0 == restbase \o <<"/search?jql=">> \o pathname2url(p.jql)
        url1 == IF DOMAIN p.fields # {}
                THEN url0 \o <<"&fields=">> \o join_fields(keys(p.fields))
                ELSE url0
        url == IF int_truthy(p.maxresults)
               THEN url1 \o <<"&maxResults=">> \o p.maxresults
               ELSE url1
        r == get(url, Response(srv[1]))
    IN  IF p.jql = None
        THEN Handled(FALSE, Raised("TypeError", <<"quote_from_bytes() expected bytes">>,
                                   <<>>), <<>>, <<>>)
        ELSE Handled(FALSE, r, <<Call(None, url, NoData, JsonType, NoHeaders, r)>>,
                     r.sent)

link(restbase, p, srv) ==
    LET data == DictData([type |-> Obj1("name", p.linktype),
                          inwardIssue |-> Obj1("key", p.inwardissue),
                          outwardIssue |-> Obj1("key", p.outwardissue)])
        url == restbase \o <<"/issueLink/">>
        r == post(url, data, JsonType, NoHeaders, Response(srv[1]))
    IN  Handled(TRUE, r, <<Call(<<"POST">>, url, data, JsonType, NoHeaders, r)>>, r.sent)

\* lines 507-511: the id of the first transition with the target name
find_transition(transitions, target) ==
    IF \E i \in DOMAIN transitions : transitions[i].name = target
    THEN transitions[CHOOSE i \in DOMAIN transitions :
                        /\ transitions[i].name = target
                        /\ \A j \in 1..(i - 1) : transitions[j].name # target].id
    ELSE None

\* '%s' % value
format_s(v) == IF v = None THEN <<"None">> ELSE v

\* lines 516-520: the fields of a transition, and the params as these lines
\* leave them; dict(params['fields']) is a copy, so the updates leave params
\* alone
transition_fields(p) ==
    LET fields0 == p.fields
        fields1 == IF p.summary # None
                   THEN dict_set(fields0, "summary", Scalar(p.summary)) ELSE fields0
        fields == IF p.description # None
                  THEN dict_set(fields1, "description", Scalar(p.description))
                  ELSE fields1
    IN  [fields |-> fields, params |-> p]

\* lines 516-531: the body of the POST of a transition
transition_data(p, tid) ==
    LET fields == transition_fields(p).fields
    IN  IF p.comment # None
        THEN DictData([transition |-> [id |-> tid], fields |-> fields,
                       update |-> [comment |-> <<[add |-> [body |-> p.comment]]>>]])
        ELSE DictData([transition |-> [id |-> tid], fields |-> fields])

transition(restbase, p, srv) ==
    LET turl == restbase \o <<"/issue/">> \o p.issue \o <<"/transitions">>
        tmeta == get(turl, Response(srv[1]))
        call1 == Call(None, turl, NoData, JsonType, NoHeaders, tmeta)
        target == p.status
        listed == dict_get(tmeta.value, "transitions")
        tid == find_transition(listed[2], target)
        url == restbase \o <<"/issue/">> \o p.issue \o <<"/transitions">>
        data == transition_data(p, tid)
        r == post(url, data, JsonType, NoHeaders, Response(srv[2]))
    IN  IF p.issue = None THEN Handled(TRUE, ConcatError, <<>>, <<>>)
        ELSE IF tmeta.kind # "return" THEN Handled(TRUE, tmeta, <<call1>>, tmeta.sent)
        ELSE IF ~HasKey(tmeta.value, "transitions")
        THEN Handled(TRUE, Raised("KeyError", <<"'transitions'">>, <<>>), <<call1>>,
                     tmeta.sent)
        ELSE IF ~Truthy(tid)
        THEN Handled(TRUE,
                     Raised("ValueError",
                            <<"Failed find valid transition for '">> \o format_s(target)
                            \o <<"'">>, <<>>),
                     <<call1>>, tmeta.sent)
        ELSE Handled(TRUE, r,
                     <<call1, Call(<<"POST">>, url, data, JsonType, NoHeaders, r)>>,
                     tmeta.sent \o r.sent)

---------------------------------------------------------------------------
(* attach and _prepare_attachment: lines 548-616 *)

\* The length of the random boundary (line 584)
BoundaryLen == 30

\* The boundaries random.choice may produce, of digits and letters
Boundaries == {[i \in 1..BoundaryLen |-> c] : c \in {"7", "h"}}

CRLF == <<"\r\n">>

\* The position of the last token c of text, 0 when there is none
last_index(text, c) ==
    IF \E i \in DOMAIN text : text[i] = c
    THEN CHOOSE i \in DOMAIN text :
            text[i] = c /\ \A j \in (i + 1)..Len(text) : text[j] # c
    ELSE 0

\* os.path.basename: what follows the last '/'
basename(path) == SubSeq(path, last_index(path, "/") + 1, Len(path))

escape_quotes(x) == [i \in 1..Len(x) |-> IF x[i] = "\"" THEN "\\\"" ELSE x[i]]

\* mimetypes.guess_type(...)[0]: the type of the file name's extension
guess_type(filename) ==
    LET name == basename(filename)
        dot == last_index(name, ".")
        ext == SubSeq(name, dot + 1, Len(name))
    IN  IF dot > 1 /\ ext = <<"txt">> THEN <<"text", "/", "plain">> ELSE None

\* str.partition('/'): the parts before and after the first '/'
partition(text) ==
    IF \E i \in DOMAIN text : text[i] = "/"
    THEN LET i == CHOOSE k \in DOMAIN text :
                     text[k] = "/" /\ \A j \in 1..(k - 1) : text[j] # "/"
         IN  <<SubSeq(text, 1, i - 1), <<"/">>, SubSeq(text, i + 1, Len(text))>>
    ELSE <<text, <<>>, <<>>>>

\* os.path.isfile
isfile(fsys, path) == path \in fsys

\* base64.decode applied to a list of arguments: it takes an input and an
\* output file, and raises TypeError when the output is missing
base64_decode(args) ==
    IF Len(args) = 2
    THEN [raised |-> FALSE, exc |-> "", msg |-> <<>>, value |-> None]
    ELSE [raised |-> TRUE, exc |-> "TypeError", value |-> None,
          msg |-> <<"decode() missing 1 required positional argument: 'output'">>]

\* "\r\n".join(lines)
RECURSIVE join_lines(_)
join_lines(lines) ==
    IF lines = <<>> THEN <<>>
    ELSE IF Len(lines) = 1 THEN lines[1]
    ELSE lines[1] \o CRLF \o join_lines(Tail(lines))

\* multipart whose closing line lacks the final two dashes
multipart_unterminated(boundary, name, main_type, sub_type, payload) ==
    [content_type |-> <<"multipart/form-data; boundary=">> \o boundary,
     data |-> join_lines(<<
         <<"--">> \o boundary,
         <<"Content-Disposition: form-data; name=\"file\"; filename=">>
             \o escape_quotes(name),
         <<"Content-Type: ">> \o main_type \o <<"/">> \o sub_type,
         <<>>,
         payload,
         <<"--">> \o boundary,
         <<>> >>),
     boundary |-> boundary]

\* lines 603-616: the multipart body and its content type
multipart(boundary, name, main_type, sub_type, payload) ==
    [content_type |-> <<"multipart/form-data; boundary=">> \o boundary,
     data |-> join_lines(<<
         <<"--">> \o boundary,
         <<"Content-Disposition: form-data; name=\"file\"; filename=">>
             \o escape_quotes(name),
         <<"Content-Type: ">> \o main_type \o <<"/">> \o sub_type,
         <<>>,
         payload,
         <<"--">> \o boundary \o <<"--">>,
         <<>> >>),
     boundary |-> boundary]

prepare_attachment(filename, content, mime_type, fsys, boundary) ==
    LET name == basename(filename)
        mime == IF ~Truthy(mime_type)
                THEN (IF guess_type(filename) # None THEN guess_type(filename)
                      ELSE <<"application", "/", "octet-stream">>)
                ELSE mime_type
        parts == partition(mime)
        decoded == base64_decode(<<content>>)
    IN  IF ~Truthy(content) /\ Truthy(filename) THEN
            IF isfile(fsys, filename)
            THEN Returned(multipart(boundary, name, parts[1], parts[3],
                                    to_text(FileContent(filename))), <<>>)
            ELSE Raised("IOError", <<"No such file or directory: ">> \o filename, <<>>)
        ELSE IF decoded.raised THEN
            IF decoded.exc = "binascii.Error"
            THEN Raised("Exception",
                        <<"Unable to base64 decode file content: ">> \o decoded.msg, <<>>)
            ELSE Raised(decoded.exc, decoded.msg, <<>>)
        ELSE Returned(multipart(boundary, name, parts[1], parts[3],
                                format_s(decoded.value)), <<>>)

attach(restbase, p, srv, fsys, boundary) ==
    LET filename == p.attachment.filename
        content == p.attachment.content
        mime == p.attachment.mimetype
        prepared == prepare_attachment(filename, content, mime, fsys, boundary)
        data == StrData(prepared.value.data)
        content_type == prepared.value.content_type
        url == restbase \o <<"/issue/">> \o p.issue \o <<"/attachments">>
        headers == DictHeaders([k \in {"X-Atlassian-Token"} |-> <<"no-check">>])
        r == post(url, data, content_type, headers, Response(srv[1]))
    IN  IF ~(Truthy(filename) \/ Truthy(content))
        THEN Handled(TRUE,
                     Raised("ValueError",
                            <<"at least one of filename or content must be provided">>,
                            <<>>), <<>>, <<>>)
        ELSE IF ~isfile(fsys, filename)
        THEN Handled(TRUE,
                     Raised("ValueError",
                            <<"The provided filename does not exist: ">> \o filename,
                            <<>>), <<>>, <<>>)
        ELSE IF prepared.kind # "return" THEN Handled(TRUE, prepared, <<>>, <<>>)
        ELSE IF p.issue = None
        THEN [Handled(TRUE, ConcatError, <<>>, <<>>) EXCEPT !.prepared = prepared.value]
        ELSE [Handled(TRUE, r, <<Call(<<"POST">>, url, data, content_type, headers, r)>>,
                      r.sent) EXCEPT !.prepared = prepared.value]

---------------------------------------------------------------------------
(* main(): lines 619-693 *)

NoOutcome == [kind |-> "none", changed |-> FALSE, meta |-> <<>>, msg |-> <<>>]
ExitJson(changed, meta) ==
    [kind |-> "exit_json", changed |-> changed, meta |-> meta, msg |-> <<>>]
FailJsonOutcome(msg) ==
    [kind |-> "fail_json", changed |-> FALSE, meta |-> <<>>, msg |-> msg]

Init ==
    \E op \in Operations :
    \E c \in [uri : Uris,
              project : Opt(op, "project", {<<"HSP">>}),
              summary : Opt(op, "summary", {<<"Broken">>}),
              description : Opt(op, "description", {<<>>, <<"It broke">>}),
              issuetype : Opt(op, "issuetype", {<<"Bug">>}),
              issue : Opt(op, "issue", {<<"HSP-1">>}),
              comment : Opt(op, "comment", {<<"Fixed">>}),
              status : Opt(op, "status", {<<"Done">>, <<"Closed">>}),
              assignee : {None, <<>>, <<"alice">>},
              account_id : {None, <<>>, <<"123">>},
              fields : IF "fields" \in Reads(op) THEN FieldIds ELSE {1},
              linktype : Opt(op, "linktype", {<<"Blocks">>}),
              inwardissue : Opt(op, "inwardissue", {<<"HSP-1">>}),
              outwardissue : Opt(op, "outwardissue", {<<"HSP-2">>}),
              jql : Opt(op, "jql", {<<"project", "=", "HSP">>}),
              maxresults : Opt(op, "maxresults", {<<"0">>, <<"50">>}),
              attachment : IF "attachment" \in Reads(op)
                           THEN Attachments \cup {NoAttachment} ELSE {NoAttachment}] :
    \E s1 \in FirstResponses :
    \E s2 \in (IF op = "transition" THEN SecondResponses ELSE {3}) :
    \E f \in (IF op = "attach" THEN FileSystems ELSE {{}}) :
        /\ params = [operation |-> op, uri |-> c.uri, username |-> username,
                     password |-> password, project |-> c.project,
                     summary |-> c.summary, description |-> c.description,
                     issuetype |-> c.issuetype, issue |-> c.issue,
                     comment |-> c.comment, status |-> c.status,
                     assignee |-> c.assignee, fields |-> FieldsOption(c.fields),
                     linktype |-> c.linktype, inwardissue |-> c.inwardissue,
                     outwardissue |-> c.outwardissue, jql |-> c.jql,
                     maxresults |-> c.maxresults, timeout |-> timeout,
                     account_id |-> c.account_id, attachment |-> c.attachment]
        /\ given = params
        /\ server = <<s1, s2>>
        /\ fs = f
        /\ pc = "init"
        /\ calls = <<>>
        /\ sent = <<>>
        /\ attached = NotPrepared
        /\ outcome = NoOutcome

\* required_if without the comment of the comment operation
required_if_lax(op) ==
    CASE op = "attach" -> <<"issue", "attachment">>
      [] op = "create" -> <<"project", "issuetype", "summary">>
      [] op = "comment" -> <<"issue">>
      [] op = "fetch" -> <<"issue">>
      [] op = "transition" -> <<"issue", "status">>
      [] op = "link" -> <<"linktype", "inwardissue", "outwardissue">>
      [] op = "search" -> <<"jql">>
      [] OTHER -> <<>>

\* required_if (lines 652-660): what each operation requires
required_if(op) ==
    CASE op = "attach" -> <<"issue", "attachment">>
      [] op = "create" -> <<"project", "issuetype", "summary">>
      [] op = "comment" -> <<"issue", "comment">>
      [] op = "fetch" -> <<"issue">>
      [] op = "transition" -> <<"issue", "status">>
      [] op = "link" -> <<"linktype", "inwardissue", "outwardissue">>
      [] op = "search" -> <<"jql">>
      [] OTHER -> <<>>

\* A parameter is missing when its value is None
is_missing(p, name) ==
    IF name = "attachment" THEN p.attachment.filename = None ELSE p[name] = None

missing_of(p) == SelectSeq(required_if(p.operation), LAMBDA name : is_missing(p, name))

\* mutually_exclusive (line 661)
mutually_exclusive(p) == p.assignee # None /\ p.account_id # None

RECURSIVE join_names(_)
join_names(names) ==
    IF names = <<>> THEN <<>>
    ELSE IF Len(names) = 1 THEN <<names[1]>>
    ELSE <<names[1], ", ">> \o join_names(Tail(names))

\* AnsibleModule(...): the argument checks of the constructor
AnsibleModule ==
    /\ pc = "init"
    /\ IF mutually_exclusive(params) THEN
           /\ outcome' = FailJsonOutcome(
                  <<"parameters are mutually exclusive: assignee|account_id">>)
           /\ pc' = "done"
       ELSE IF missing_of(params) # <<>> THEN
           /\ outcome' = FailJsonOutcome(
                  <<"operation is ", params.operation,
                    " but all of the following are missing: ">>
                  \o join_names(missing_of(params)))
           /\ pc' = "done"
       ELSE
           /\ outcome' = outcome
           /\ pc' = "main"
    /\ UNCHANGED <<params, given, server, fs, calls, sent, attached>>

\* resolve_assignee with the account id stored under the key of the name
resolve_assignee_same_key(p) ==
    LET fields1 == IF Truthy(p.assignee)
                   THEN dict_set(p.fields, "assignee", Obj1("name", p.assignee))
                   ELSE p.fields
        fields2 == IF Truthy(p.account_id)
                   THEN dict_set(fields1, "assignee", Obj1("name", p.account_id))
                   ELSE fields1
    IN  [p EXCEPT !.fields = fields2]

\* lines 671-674: the assignee of the fields mapping
resolve_assignee(p) ==
    LET fields1 == IF Truthy(p.assignee)
                   THEN dict_set(p.fields, "assignee", Obj1("name", p.assignee))
                   ELSE p.fields
        fields2 == IF Truthy(p.account_id)
                   THEN dict_set(fields1, "assignee", Obj1("accountId", p.account_id))
                   ELSE fields1
    IN  [p EXCEPT !.fields = fields2]

\* lines 676-678
restbase_of(uri) ==
    (IF uri = <<>> \/ uri[Len(uri)] # "/" THEN uri \o <<"/">> ELSE uri)
    \o <<"rest/api/2">>

\* lines 665-678: the parameters are read and the assignee resolved
Resolve ==
    /\ pc = "main"
    /\ params' = resolve_assignee(params)
    /\ pc' = "dispatch"
    /\ UNCHANGED <<given, server, fs, calls, sent, attached, outcome>>

\* report with the exception of a handler swallowed and success reported
report_swallowing(h) ==
    CASE h.kind = "return" -> ExitJson(h.changed, h.value)
      [] h.kind = "raise" -> ExitJson(h.changed, h.value)
      [] h.kind = "fail_json" -> FailJsonOutcome(h.msg)

\* lines 681-693: the outcome main reports for what the handler did
report(h) ==
    CASE h.kind = "return" -> ExitJson(h.changed, h.value)
      [] h.kind = "raise" -> FailJsonOutcome(h.msg)
      [] h.kind = "fail_json" -> FailJsonOutcome(h.msg)

\* The params as the handler leaves them: create writes to createfields,
\* transition to its copy once it has found the transition id (its second
\* call follows), and the other handlers only read them
params_after(op, h, p) ==
    CASE op = "create" -> create_fields(p).params
      [] op = "transition" -> IF Len(h.calls) = 2 THEN transition_fields(p).params ELSE p
      [] OTHER -> p

\* lines 681-693, the handler included
Dispatch(op, h) ==
    /\ pc = "dispatch"
    /\ params.operation = op
    /\ outcome' = report(h)
    /\ calls' = h.calls
    /\ sent' = h.sent
    /\ attached' = h.prepared
    /\ params' = params_after(op, h, params)
    /\ pc' = "done"
    /\ UNCHANGED <<given, server, fs>>

Create == Dispatch("create", create(restbase_of(params.uri), params, server))
Comment == Dispatch("comment", comment(restbase_of(params.uri), params, server))
Edit == Dispatch("edit", edit(restbase_of(params.uri), params, server))
Update == Dispatch("update", update(restbase_of(params.uri), params, server))
Fetch == Dispatch("fetch", fetch(restbase_of(params.uri), params, server))
Search == Dispatch("search", search(restbase_of(params.uri), params, server))
Transition == Dispatch("transition", transition(restbase_of(params.uri), params, server))
Link == Dispatch("link", link(restbase_of(params.uri), params, server))
Attach ==
    \E boundary \in Boundaries :
        Dispatch("attach", attach(restbase_of(params.uri), params, server, fs, boundary))

Next ==
    \/ AnsibleModule
    \/ Resolve
    \/ Create
    \/ Comment
    \/ Edit
    \/ Update
    \/ Fetch
    \/ Search
    \/ Transition
    \/ Link
    \/ Attach

Spec == Init /\ [][Next]_vars

---------------------------------------------------------------------------
(* Vocabulary of the properties *)

Op == given.operation

\* The constructor accepted the parameters
Accepted == ~mutually_exclusive(given) /\ missing_of(given) = <<>>

IsBase64(content) == \E B \in ByteStrings : B # <<>> /\ content = b64encode(B)

\* The attachment resolves to bytes: inline base64, or else an existing file
AttachmentResolves ==
    IF Truthy(given.attachment.content) THEN IsBase64(given.attachment.content)
    ELSE given.attachment.filename \in fs

\* The parameters the operation builds its request from are all there
ValidInputs ==
    /\ Accepted
    /\ Op \in {"edit", "update"} => given.issue # None
    /\ Op = "attach" => AttachmentResolves

\* The decoded form of a response body: {} for an empty body
Decoded(body) == IF body = <<>> THEN <<>> ELSE json_loads(body).v
Decodable(body) == body = <<>> \/ json_loads(body).ok

First == Response(server[1])
Second == Response(server[2])

\* The transitions the server lists for the issue
Listed == dict_get(Decoded(First.body), "transitions")[2]
ListsTransitions ==
    /\ First.status \in StatusOK
    /\ json_loads(First.body).ok
    /\ HasKey(Decoded(First.body), "transitions")
NamesTarget == \E i \in DOMAIN Listed : Listed[i].name = given.status

\* The server answers every request of the operation with a success
AnsweredWithSuccess ==
    IF Op = "transition"
    THEN /\ ListsTransitions
         /\ NamesTarget
         /\ Truthy(find_transition(Listed, given.status))
         /\ Second.status \in StatusOK
         /\ Decodable(Second.body)
    ELSE First.status \in StatusOK /\ Decodable(First.body)

LastBody == IF Op = "transition" THEN Second.body ELSE First.body

---------------------------------------------------------------------------
(* C1: request() succeeds exactly when the status is 200, 201 or 204: for  *)
(* those it returns the decoded JSON body ({} for an empty body) and does  *)
(* not call fail_json; for every other status it calls fail_json.          *)
C1_RequestSucceedsIffStatusOK ==
    \A i \in DOMAIN calls :
        LET resp == Response(server[i]) IN
        /\ (resp.status \in StatusOK /\ Decodable(resp.body)) =>
               (calls[i].kind = "return" /\ calls[i].value = Decoded(resp.body))
        /\ resp.status \notin StatusOK => calls[i].kind = "fail_json"

(* C2: a response with a non-success status fails the call with the        *)
(* errorMessages and errors fields of its JSON body joined, errorMessages  *)
(* first, when one of them is not empty, and with the raw body text when   *)
(* the body is not JSON.                                                   *)
C2_FailureMessageFallback ==
    \A i \in DOMAIN calls :
        LET resp == Response(server[i])
            error == json_loads(resp.body)
        IN  (pc = "done" /\ i = Len(calls) /\ resp.status \notin StatusOK) =>
               /\ outcome.kind = "fail_json"
               /\ ~error.ok => outcome.msg = resp.body
               /\ (error.ok /\ error_messages(error.v) # <<>>) =>
                      outcome.msg = join_messages(error_messages(error.v))

(* C3: an operation whose requests are all answered with a success ends in *)
(* exit_json, with changed = false for fetch and search and true for the   *)
(* other seven, and meta the decoded body of the last response.            *)
C3_SuccessReportsChangedAndMeta ==
    (pc = "done" /\ ValidInputs /\ AnsweredWithSuccess) =>
        /\ outcome.kind = "exit_json"
        /\ outcome.changed = (Op \notin {"fetch", "search"})
        /\ outcome.meta = Decoded(LastBody)

\* The REST base every path is under
Base == "http://jira/rest/api/2"

\* The methods and paths of the operation table
Table ==
    CASE Op = "create" -> << <<"POST", Base \o "/issue/">> >>
      [] Op = "comment" ->
            << <<"POST", Base \o "/issue/" \o Flat(given.issue) \o "/comment">> >>
      [] Op \in {"edit", "update"} -> << <<"PUT", Base \o "/issue/" \o Flat(given.issue)>> >>
      [] Op = "fetch" -> << <<"GET", Base \o "/issue/" \o Flat(given.issue)>> >>
      [] Op = "search" -> << <<"GET", Base \o "/search?jql=">> >>
      [] Op = "transition" ->
            << <<"GET", Base \o "/issue/" \o Flat(given.issue) \o "/transitions">>,
               <<"POST", Base \o "/issue/" \o Flat(given.issue) \o "/transitions">> >>
      [] Op = "link" -> << <<"POST", Base \o "/issueLink/">> >>
      [] Op = "attach" ->
            << <<"POST", Base \o "/issue/" \o Flat(given.issue) \o "/attachments">> >>

\* The URL is the path of the table; for search, the path up to the query
PathIs(url, path) ==
    IF Op = "search"
    THEN \E k \in DOMAIN url : url[k] = "/search?jql=" /\ Flat(SubSeq(url, 1, k)) = path
    ELSE Flat(url) = path

(* C4: with valid inputs, the requests handed to the HTTP layer have the   *)
(* methods and paths of the operation table, under {uri}/rest/api/2        *)
(* whether or not uri ends with '/'; a transition is a GET then a POST.    *)
C4_MethodAndPathOfTable ==
    (pc = "done" /\ ValidInputs) =>
        /\ Len(sent) >= 1
        /\ Len(sent) <= Len(Table)
        /\ AnsweredWithSuccess => Len(sent) = Len(Table)
        /\ \A i \in DOMAIN sent :
               /\ Flat(sent[i].method) = Table[i][1]
               /\ PathIs(sent[i].url, Table[i][2])

(* C5: every request the handlers make goes out with an Authorization:     *)
(* Basic header; with Content-Type application/json for every operation   *)
(* but attach; with Content-Type multipart/form-data; boundary=... and     *)
(* X-Atlassian-Token: no-check for attach.                                 *)
C5_HeadersOfEveryRequest ==
    /\ Len(sent) = Len(calls)
    /\ \A i \in DOMAIN sent :
           LET h == sent[i].headers IN
           /\ "Authorization" \in DOMAIN h
           /\ h["Authorization"][1] = "Basic "
           /\ "Content-Type" \in DOMAIN h
           /\ Op # "attach" => Flat(h["Content-Type"]) = "application/json"
           /\ Op = "attach" =>
                  /\ h["Content-Type"][1] = "multipart/form-data; boundary="
                  /\ "X-Atlassian-Token" \in DOMAIN h
                  /\ Flat(h["X-Atlassian-Token"]) = "no-check"

(* C6: an invocation whose preconditions hold sends exactly one HTTP       *)
(* request before it reports its result, whatever the operation.           *)
C6_ExactlyOneRequest ==
    (pc = "done" /\ ValidInputs) => Len(sent) = 1

\* text contains part as a run of consecutive tokens
Contains(text, part) ==
    \E k \in 0..(Len(text) - Len(part)) : SubSeq(text, k + 1, k + Len(part)) = part

PostSent == \E i \in DOMAIN sent : sent[i].method = <<"POST">>

(* C7: in a transition the POST goes out only after the GET succeeded and  *)
(* listed a transition with the requested name, and carries the id of the  *)
(* first such transition; when the server lists no transition with that    *)
(* name, the call fails with an error naming the requested status and no   *)
(* POST goes out.                                                          *)
C7_TransitionResolution ==
    (pc = "done" /\ Op = "transition" /\ ValidInputs) =>
        /\ PostSent =>
               /\ ListsTransitions
               /\ NamesTarget
               /\ Len(sent) = 2
               /\ sent[1].method = <<"GET">>
               /\ sent[2].data.v.transition.id = find_transition(Listed, given.status)
        /\ (ListsTransitions /\ ~NamesTarget) =>
               /\ outcome.kind = "fail_json"
               /\ Contains(outcome.msg, given.status)
               /\ ~PostSent

\* The assignee has been resolved and the handler is about to run or has run
Resolved == pc \in {"dispatch", "done"} /\ Accepted

AssigneeIs(key, value) ==
    /\ "assignee" \in DOMAIN params.fields
    /\ params.fields["assignee"] = Obj1(key, value)

\* The call was rejected before any field was constructed or request sent
RejectedUntouched ==
    /\ pc \in {"init", "done"}
    /\ pc = "done" => outcome.kind = "fail_json"
    /\ params = given
    /\ calls = <<>>
    /\ sent = <<>>

(* C8 as claimed: when only assignee is given the fields contain assignee  *)
(* = {name: assignee}; when only account_id is given they contain assignee *)
(* = {accountId: account_id}; when both are given the call is rejected     *)
(* before any field is constructed and before any request is sent.         *)
C8_AssigneeAsClaimed ==
    /\ (Resolved /\ given.assignee # None /\ given.account_id = None) =>
           AssigneeIs("name", given.assignee)
    /\ (Resolved /\ given.account_id # None /\ given.assignee = None) =>
           AssigneeIs("accountId", given.account_id)
    /\ (given.assignee # None /\ given.account_id # None) => RejectedUntouched

(* C8, amended: when only a non-empty assignee is given the fields contain *)
(* assignee = {name: assignee}; when only a non-empty account_id is given  *)
(* they contain assignee = {accountId: account_id}; an empty one leaves    *)
(* the fields as the caller passed them; when both are given the call is   *)
(* rejected before any field is constructed and any request is sent.       *)
C8_AssigneeResolution ==
    /\ (Resolved /\ Truthy(given.assignee) /\ given.account_id = None) =>
           AssigneeIs("name", given.assignee)
    /\ (Resolved /\ Truthy(given.account_id) /\ given.assignee = None) =>
           AssigneeIs("accountId", given.account_id)
    /\ (Resolved /\ ~Truthy(given.assignee) /\ ~Truthy(given.account_id)) =>
           params.fields = given.fields
    /\ (given.assignee # None /\ given.account_id # None) => RejectedUntouched

\* An edit has run with the assignee resolved from the assignee parameter
C8_Witness ==
    /\ pc = "done"
    /\ Accepted
    /\ Op = "edit"
    /\ given.assignee = <<"alice">>
    /\ given.account_id = None
    /\ calls # <<>>
    /\ calls[1].data.v.fields["assignee"] = Obj1("name", <<"alice">>)

\* The payload segment of a multipart body: from the blank line after the
\* part headers to the CRLF before the closing boundary
payload_of(body) ==
    LET blank(i) == body[i] = "\r\n" /\ body[i + 1] = "\r\n"
        k == CHOOSE i \in 1..(Len(body) - 1) :
                 blank(i) /\ \A j \in 1..(i - 1) : ~blank(j)
    IN  SubSeq(body, k + 2, Len(body) - (BoundaryLen + 4))

Payload == payload_of(attached.data)

(* C9: with inline content, attach uses the base64-decoded content as the  *)
(* payload whether or not a file exists at filename, and malformed base64  *)
(* fails with a decoding error; without inline content the payload is the  *)
(* content of the file at filename and a nonexistent path fails; no        *)
(* failing case sends a request.                                           *)
C9_AttachmentContentResolution ==
    (pc = "done" /\ Op = "attach" /\ Accepted) =>
        LET a == given.attachment IN
        /\ (Truthy(a.content) /\ IsBase64(a.content)) =>
               /\ attached.data # None
               /\ \E B \in ByteStrings : a.content = b64encode(B) /\ Payload = to_text(B)
        /\ (Truthy(a.content) /\ ~IsBase64(a.content)) =>
               /\ outcome.kind = "fail_json"
               /\ Contains(outcome.msg, <<"Unable to base64 decode file content: ">>)
        /\ (~Truthy(a.content) /\ a.filename \in fs) =>
               /\ attached.data # None
               /\ Payload = to_text(FileContent(a.filename))
        /\ (~Truthy(a.content) /\ a.filename \notin fs) => outcome.kind = "fail_json"
        /\ attached.data = None => sent = <<>>

(* C10: for every byte string B (here: every non-empty one, which is the   *)
(* content the encoder decodes), encoding an attachment whose inline       *)
(* content is base64(B) gives a multipart body whose payload segment is B. *)
C10_EncoderRoundTrip ==
    (pc = "done" /\ Op = "attach" /\ Accepted /\ given.attachment.filename \in fs) =>
        \A B \in ByteStrings :
            (B # <<>> /\ given.attachment.content = b64encode(B)) =>
                (attached.data # None /\ Payload = to_text(B))

\* The number of places of text where part begins
Occurrences(text, part) ==
    Cardinality({i \in 1..(Len(text) - Len(part) + 1) :
                    SubSeq(text, i, i + Len(part) - 1) = part})

\* The lines of a text: what stands between its CRLFs
RECURSIVE split_lines(_)
split_lines(text) ==
    IF \E i \in DOMAIN text : text[i] = "\r\n"
    THEN LET i == CHOOSE k \in DOMAIN text :
                     text[k] = "\r\n" /\ \A j \in 1..(k - 1) : text[j] # "\r\n"
         IN  <<SubSeq(text, 1, i - 1)>> \o split_lines(SubSeq(text, i + 1, Len(text)))
    ELSE <<text>>

\* string.digits + string.ascii_letters
Alphanumeric == {B64Alphabet[i] : i \in 1..62}

\* The encoder returned a body for a file whose content and name do not
\* contain the boundary
EncodedClean ==
    /\ pc = "done"
    /\ Op = "attach"
    /\ attached.data # None
    /\ ~Contains(to_text(FileContent(given.attachment.filename)), attached.boundary)
    /\ ~Contains(basename(given.attachment.filename), attached.boundary)

(* C11: when payload and file name do not contain the generated boundary,  *)
(* the encoded body is exactly one part: the boundary occurs exactly       *)
(* twice, in the opening line '--B' that is the first line and in the      *)
(* closing line '--B--' that is the last non-empty line; the boundary is   *)
(* 30 alphanumeric characters and the one of the returned content type;    *)
(* and the body is the opening boundary, Content-Disposition,              *)
(* Content-Type, a blank line, the payload and the closing boundary,       *)
(* joined with CRLF.                                                       *)
C11_ExactlyOnePart ==
    EncodedClean =>
        LET B == attached.boundary
            lines == split_lines(attached.data)
            nonempty == SelectSeq(lines, LAMBDA l : l # <<>>)
        IN  /\ Occurrences(attached.data, B) = 2
            /\ lines[1] = <<"--">> \o B
            /\ nonempty[Len(nonempty)] = <<"--">> \o B \o <<"--">>
            /\ Len(B) = 30
            /\ \A i \in DOMAIN B : B[i] \in Alphanumeric
            /\ attached.content_type = <<"multipart/form-data; boundary=">> \o B
            /\ Len(lines) = 7
            /\ lines[2][1] = "Content-Disposition: form-data; name=\"file\"; filename="
            /\ lines[3][1] = "Content-Type: "
            /\ lines[4] = <<>>
            /\ ~Truthy(given.attachment.content) =>
                   lines[5] = to_text(FileContent(given.attachment.filename))
            /\ lines[6] = <<"--">> \o B \o <<"--">>
            /\ lines[7] = <<>>

\* A file whose content holds dashes, but no boundary, has been encoded
C11_Witness ==
    /\ EncodedClean
    /\ given.attachment.filename = QuotedBin
    /\ Occurrences(attached.data, attached.boundary) = 2

\* The payload holds the boundary, and the boundary occurs three times
C11_PayloadWithBoundary ==
    /\ pc = "done"
    /\ Op = "attach"
    /\ attached.data # None
    /\ Contains(to_text(FileContent(given.attachment.filename)), attached.boundary)
    /\ Occurrences(attached.data, attached.boundary) = 3

\* A call of request() that did not return: it raised or called fail_json
Failed(i) == calls[i].kind # "return"

(* C12: every invocation ends by reporting exactly one outcome, exit_json  *)
(* or fail_json: none is reported before main has ended, and at its end    *)
(* one of the two has been. After a failure nothing more is requested: a   *)
(* call of request() that failed is the last one and ends in fail_json,    *)
(* every call sends at most one request, a rejected invocation calls and   *)
(* sends nothing, a transition whose target the server does not list       *)
(* stops after the GET, and exit_json is reported only when every call     *)
(* returned.                                                               *)
C12_ExactlyOneOutcome ==
    /\ pc = "done" => outcome.kind \in {"exit_json", "fail_json"}
    /\ pc # "done" => outcome.kind = "none"
    /\ \A i \in DOMAIN calls :
           Failed(i) => (i = Len(calls) /\ outcome.kind = "fail_json")
    /\ Len(sent) <= Len(calls)
    /\ (pc = "done" /\ ~Accepted) =>
           (outcome.kind = "fail_json" /\ calls = <<>> /\ sent = <<>>)
    /\ (pc = "done" /\ Accepted /\ Op = "transition" /\ given.issue # None
           /\ ~(ListsTransitions /\ NamesTarget)) =>
           (outcome.kind = "fail_json" /\ Len(calls) = 1)
    /\ outcome.kind = "exit_json" => \A i \in DOMAIN calls : ~Failed(i)

\* A handler's call of request() raised, and the invocation failed once
C12_Witness ==
    /\ pc = "done"
    /\ Accepted
    /\ calls # <<>>
    /\ Failed(Len(calls))
    /\ outcome.kind = "fail_json"
    /\ sent = <<>>

\* The parameters each operation builds its request from
Needed(op) ==
    CASE op = "attach" -> {"issue", "attachment"}
      [] op = "comment" -> {"issue", "comment"}
      [] op = "edit" -> {"issue"}
      [] op = "update" -> {"issue"}
      [] op = "fetch" -> {"issue"}
      [] op = "transition" -> {"issue", "status"}
      [] op = "create" -> {"project", "issuetype", "summary"}
      [] op = "link" -> {"linktype", "inwardissue", "outwardissue"}
      [] op = "search" -> {"jql"}

Absent(name) == is_missing(given, name)

(* C13: for each of the nine operations, when a parameter the operation    *)
(* builds its request from is absent, the invocation ends in a failure,    *)
(* and it has called request() not once, so no HTTP request is sent.       *)
C13_MissingParameterFails ==
    (pc = "done" /\ \E name \in Needed(Op) : Absent(name)) =>
        (outcome.kind = "fail_json" /\ calls = <<>> /\ sent = <<>>)

\* An edit without issue passed the constructor and failed in the handler
C13_Witness ==
    /\ pc = "done"
    /\ Op = "edit"
    /\ Absent("issue")
    /\ Accepted
    /\ outcome.kind = "fail_json"
    /\ outcome.msg = ConcatError.msg
    /\ calls = <<>>

\* The free-form fields main hands to the handler: the caller's, with the
\* assignee injected from assignee or account_id
CallerFields == resolve_assignee(given).fields

(* C14: the body create hands to post() is {fields: F}, where F holds      *)
(* project as {key: project}, summary, issuetype as {name: issuetype},     *)
(* description exactly when description is non-empty, and every key of     *)
(* the caller's free-form fields (the injected assignee included) with     *)
(* the caller's value, also on a key that create sets itself.              *)
C14_CreateBody ==
    (pc = "done" /\ Op = "create" /\ Accepted) =>
        /\ Len(calls) = 1
        /\ calls[1].data.t = "dict"
        /\ DOMAIN calls[1].data.v = {"fields"}
        /\ LET F == calls[1].data.v.fields
                own == {"project", "summary", "issuetype"}
                       \cup (IF Truthy(given.description) THEN {"description"} ELSE {})
           IN  /\ DOMAIN F = own \cup DOMAIN CallerFields
               /\ \A k \in DOMAIN CallerFields : F[k] = CallerFields[k]
               /\ \A k \in own \ DOMAIN CallerFields :
                      F[k] = CASE k = "project" -> Obj1("key", given.project)
                               [] k = "summary" -> Scalar(given.summary)
                               [] k = "issuetype" -> Obj1("name", given.issuetype)
                               [] k = "description" -> Scalar(given.description)

\* A create whose caller overrides summary and whose assignee is injected
\* over the one of the caller's fields
C14_Witness ==
    /\ pc = "done"
    /\ Op = "create"
    /\ Accepted
    /\ given.fields = FieldsOption(3)
    /\ given.assignee = <<"alice">>
    /\ Truthy(given.description)
    /\ calls[1].data.v.fields["summary"] = Scalar(<<"Overridden">>)
    /\ calls[1].data.v.fields["assignee"] = Obj1("name", <<"alice">>)
    /\ calls[1].data.v.fields["description"] = Scalar(given.description)

(* C15: once main has resolved the assignee and dispatched to a handler,   *)
(* the request parameters are not modified: the step of each of the nine   *)
(* handlers, whether it returns or fails, leaves the parameter mapping     *)
(* and its free-form fields mapping as they were at dispatch.              *)
C15_ParamsNotModified ==
    [][pc = "dispatch" => params' = params]_vars

\* A create has built a body whose fields differ from the caller's, and
\* the parameters are those of the dispatch
C15_Witness ==
    /\ pc = "done"
    /\ Op = "create"
    /\ Accepted
    /\ calls # <<>>
    /\ DOMAIN given.fields # {}
    /\ calls[1].data.v.fields # params.fields
    /\ params = resolve_assignee(given)

====
